---- MODULE Spec2Model ----
(***************************************************************************)
(* Zonal raster analytics of AIR_Monitoring: the series assembly of        *)
(* graph.py (make_grafik and its helpers), the zonal mean (_compute_mean)  *)
(* and the colour normalisation of rasterimage.py (make_screens).          *)
(*                                                                         *)
(* Strings are sequences of character codes, so that sorted(), lower(),    *)
(* upper(), endswith(), the date regex and strptime are computed as the    *)
(* code computes them.  Dates are proleptic Gregorian ordinals             *)
(* (datetime.toordinal).  Floats are records [k, n]: k is "fin", "nan",    *)
(* "inf", "ninf" or "big"; "fin" is the value n, "big" is n * 10^20.       *)
(***************************************************************************)
EXTENDS Integers, Sequences, FiniteSets, TLC

\* ------------------------------------------------------------------ bounds
MaxFiles == 3      \* most directory entries in the pollutant folder
MaxCells == 3      \* most cells of a clipped raster / of a rendered raster

\* ------------------------------------------------------------ characters
Slash == 47
Hyphen == 45

IsDigit(c) == c \in 48..57

IsDigitsAt(s, i, n) ==
  /\ i + n - 1 <= Len(s)
  /\ \A k \in 0..(n - 1) : IsDigit(s[i + k])

IsCharAt(s, i, c) == i <= Len(s) /\ s[i] = c

RECURSIVE IntOf(_, _, _)
\* int() of the n digits of s that start at i
IntOf(s, i, n) ==
  IF n = 0 THEN 0 ELSE IntOf(s, i, n - 1) * 10 + (s[i + n - 1] - 48)

\* str.lower() / str.upper() on one ASCII character
LowerChar(c) == IF c \in 65..90 THEN c + 32 ELSE c
UpperChar(c) == IF c \in 97..122 THEN c - 32 ELSE c

lower(s) == [i \in 1..Len(s) |-> LowerChar(s[i])]
upper(s) == [i \in 1..Len(s) |-> UpperChar(s[i])]

endswith(s, suf) ==
  /\ Len(s) >= Len(suf)
  /\ SubSeq(s, Len(s) - Len(suf) + 1, Len(s)) = suf

RECURSIVE StrLessFrom(_, _, _)
StrLessFrom(a, b, i) ==
  IF i > Len(a) THEN i <= Len(b)
  ELSE IF i > Len(b) THEN FALSE
  ELSE IF a[i] # b[i] THEN a[i] < b[i]
  ELSE StrLessFrom(a, b, i + 1)

\* a < b on Python str: code-point lexicographic order
StrLess(a, b) == StrLessFrom(a, b, 1)

\* os.path.basename: what follows the last "/"
basename(path) ==
  LET cuts == {i \in 1..Len(path) : path[i] = Slash}
      last == IF cuts = {} THEN 0 ELSE CHOOSE i \in cuts : \A j \in cuts : j <= i
  IN SubSeq(path, last + 1, Len(path))

\* os.path.join(folder, f)
join(folder, f) == folder \o <<Slash>> \o f

\* ------------------------------------------------------------------ dates
ValueError == -1       \* the outcome "raise ValueError" of a parse

IsLeap(y) == (y % 4 = 0 /\ y % 100 # 0) \/ y % 400 = 0

DaysInMonth(y, m) ==
  IF m = 2 THEN (IF IsLeap(y) THEN 29 ELSE 28)
  ELSE IF m \in {4, 6, 9, 11} THEN 30 ELSE 31

RECURSIVE DaysBeforeMonth(_, _)
DaysBeforeMonth(y, m) ==
  IF m = 1 THEN 0 ELSE DaysBeforeMonth(y, m - 1) + DaysInMonth(y, m - 1)

\* datetime(y, m, d).toordinal(), or ValueError for a date that does not exist
toordinal(y, m, d) ==
  IF y < 1 \/ m < 1 \/ m > 12 \/ d < 1 \/ d > DaysInMonth(y, m) THEN ValueError
  ELSE 365 * (y - 1) + ((y - 1) \div 4) - ((y - 1) \div 100) + ((y - 1) \div 400)
       + DaysBeforeMonth(y, m) + d

\* datetime.strptime(d, fmt) for the three formats of the code; the whole
\* string must be consumed, fields are fixed-width
strptime(d, fmt) ==
  IF fmt = "%Y-%m-%d" THEN
    IF /\ Len(d) = 10 /\ IsDigitsAt(d, 1, 4) /\ d[5] = Hyphen
       /\ IsDigitsAt(d, 6, 2) /\ d[8] = Hyphen /\ IsDigitsAt(d, 9, 2)
    THEN toordinal(IntOf(d, 1, 4), IntOf(d, 6, 2), IntOf(d, 9, 2))
    ELSE ValueError
  ELSE IF fmt = "%Y%m%d" THEN
    IF Len(d) = 8 /\ IsDigitsAt(d, 1, 8)
    THEN toordinal(IntOf(d, 1, 4), IntOf(d, 5, 2), IntOf(d, 7, 2))
    ELSE ValueError
  ELSE
    IF /\ Len(d) = 10 /\ IsDigitsAt(d, 1, 2) /\ d[3] = Hyphen
       /\ IsDigitsAt(d, 4, 2) /\ d[6] = Hyphen /\ IsDigitsAt(d, 7, 4)
    THEN toordinal(IntOf(d, 7, 4), IntOf(d, 4, 2), IntOf(d, 1, 2))
    ELSE ValueError

\* length of the match of (\d{4}-\d{2}-\d{2}|\d{8}|\d{2}-\d{2}-\d{4}) at i, 0 if none
MatchLenAt(s, i) ==
  IF /\ IsDigitsAt(s, i, 4) /\ IsCharAt(s, i + 4, Hyphen) /\ IsDigitsAt(s, i + 5, 2)
     /\ IsCharAt(s, i + 7, Hyphen) /\ IsDigitsAt(s, i + 8, 2) THEN 10
  ELSE IF IsDigitsAt(s, i, 8) THEN 8
  ELSE IF /\ IsDigitsAt(s, i, 2) /\ IsCharAt(s, i + 2, Hyphen) /\ IsDigitsAt(s, i + 3, 2)
          /\ IsCharAt(s, i + 5, Hyphen) /\ IsDigitsAt(s, i + 6, 4) THEN 10
  ELSE 0

RECURSIVE FirstMatchFrom(_, _)
\* the leftmost position at or after i where the pattern matches, 0 if none
FirstMatchFrom(s, i) ==
  IF i > Len(s) THEN 0
  ELSE IF MatchLenAt(s, i) > 0 THEN i
  ELSE FirstMatchFrom(s, i + 1)

\* re.search(...).group(1): the leftmost match, <<>> when there is none
re_search(s) ==
  LET i == FirstMatchFrom(s, 1)
  IN IF i = 0 THEN <<>> ELSE SubSeq(s, i, i + MatchLenAt(s, i) - 1)

_parse_date_from_filename(path) ==
  LET d == re_search(basename(path))
      a == strptime(d, "%Y-%m-%d")
      b == strptime(d, "%Y%m%d")
  IN IF d = <<>> THEN ValueError
     ELSE IF a # ValueError THEN a
     ELSE IF b # ValueError THEN b
     ELSE strptime(d, "%d-%m-%Y")

\* ------------------------------------------------------------------ floats
Fin(n) == [k |-> "fin", n |-> n]
Big(h) == [k |-> "big", n |-> h]       \* h * 10^20, h # 0
NaN == [k |-> "nan", n |-> 0]
PosInf == [k |-> "inf", n |-> 0]
NegInf == [k |-> "ninf", n |-> 0]

\* np.isfinite
isfinite(v) == v.k \in {"fin", "big"}

\* v < 1e20 on a finite float (graph.py:111)
BelowFill(v) == IF v.k = "big" THEN v.n < 1 ELSE TRUE

RECURSIVE Pow10(_)
Pow10(e) == IF e = 0 THEN 1 ELSE 10 * Pow10(e - 1)

\* round() of the rational p / q (q > 0) to an integer, ties to even
RoundHalfEven(p, q) ==
  LET f == p \div q
      r == p - f * q
  IN IF 2 * r < q THEN f
     ELSE IF 2 * r > q THEN f + 1
     ELSE IF f % 2 = 0 THEN f ELSE f + 1

RECURSIVE SumFin(_)
SumFin(v) == IF v = <<>> THEN 0
             ELSE (IF Head(v).k = "fin" THEN Head(v).n ELSE 0) + SumFin(Tail(v))

RECURSIVE SumBig(_)
SumBig(v) == IF v = <<>> THEN 0
             ELSE (IF Head(v).k = "big" THEN Head(v).n ELSE 0) + SumBig(Tail(v))

\* decimal exponent of the factor the mean is multiplied by (graph.py:116-121)
CH4 == <<67, 72, 52>>
NO2 == <<78, 79, 50>>
SO2 == <<83, 79, 50>>
HCHO == <<72, 67, 72, 79>>
CO == <<67, 79>>

\* faulty variant: the CH4 branch is missing
ScaleExpMutCH4(gas) ==
  IF gas \in {NO2, SO2, HCHO} THEN 6 ELSE 0

ScaleExp(gas) ==
  IF gas = CH4 THEN -3
  ELSE IF gas \in {NO2, SO2, HCHO} THEN 6
  ELSE 0

\* faulty variant: the v < 1e20 filter is missing
FilterValuesFiniteOnly(values) == SelectSeq(values, isfinite)

\* v[np.isfinite(v)] then v[v < 1e20]  (graph.py:110-111)
FilterValues(values) ==
  SelectSeq(SelectSeq(values, isfinite), BelowFill)

\* _compute_mean(gas, values).  The samples are multiples of 10^quantum, the
\* result is in thousandths (round(.., 3)), computed on exact rationals.  A
\* mean that still contains a term -h * 10^20 is reported as Big(sign).
_compute_mean(gas, values, quantum) ==
  LET v == FilterValues(values)
      g == quantum + ScaleExp(gas) + 3
  IN IF Len(v) = 0 THEN Fin(0)
     ELSE IF SumBig(v) # 0 THEN Big(IF SumBig(v) > 0 THEN 1 ELSE -1)
     ELSE Fin(RoundHalfEven(SumFin(v) * Pow10(IF g > 0 THEN g ELSE 0),
                            Len(v) * Pow10(IF g < 0 THEN -g ELSE 0)))

\* ------------------------------------------------------- series assembly
TifExt == <<46, 116, 105, 102>>            \* ".tif"

RECURSIVE InsertSorted(_, _)
InsertSorted(s, x) ==
  IF s = <<>> THEN <<x>>
  ELSE IF StrLess(x, Head(s)) THEN <<x>> \o s
  ELSE <<Head(s)>> \o InsertSorted(Tail(s), x)

RECURSIVE sorted(_)
\* sorted() of a sequence of str
sorted(s) == IF s = <<>> THEN <<>> ELSE InsertSorted(sorted(Tail(s)), Head(s))

IsTifName(f) == endswith(lower(f), TifExt)

\* faulty variant: the listing is not sorted
_list_tiffs_unsorted(isdir, folder, entries) ==
  IF ~isdir THEN <<>>
  ELSE LET keep == SelectSeq(entries, IsTifName)
       IN [i \in 1..Len(keep) |-> join(folder, keep[i])]

\* _list_tiffs: entries is os.listdir(folder), in the order the OS returns it
_list_tiffs(isdir, folder, entries) ==
  IF ~isdir THEN <<>>
  ELSE LET keep == SelectSeq(entries, IsTifName)
       IN sorted([i \in 1..Len(keep) |-> join(folder, keep[i])])

CoerceLookback(lookback_days) ==
  IF lookback_days \notin {7, 15, 30} THEN 30 ELSE lookback_days

\* faulty variant: the window is one day too long
WindowStartOffByOne(end_dt, lookback_days) == end_dt - lookback_days

\* start_dt = end_dt - timedelta(days=int(lookback_days) - 1)
WindowStart(end_dt, lookback_days) == end_dt - (lookback_days - 1)

\* faulty variant: the ValueError of the parse is not caught
SelectStepRaising(selected, p, start_dt, end_dt) ==
  LET dt == _parse_date_from_filename(p)
  IN IF dt = ValueError THEN [raised |-> TRUE, selected |-> selected]
     ELSE IF dt > end_dt \/ dt < start_dt THEN [raised |-> FALSE, selected |-> selected]
     ELSE [raised |-> FALSE, selected |-> Append(selected, <<dt, p>>)]

\* one iteration of "for p in tiffs" (graph.py:255-262)
SelectStep(selected, p, start_dt, end_dt) ==
  LET dt == _parse_date_from_filename(p)
  IN IF dt = ValueError THEN [raised |-> FALSE, selected |-> selected]
     ELSE IF dt > end_dt \/ dt < start_dt THEN [raised |-> FALSE, selected |-> selected]
     ELSE [raised |-> FALSE, selected |-> Append(selected, <<dt, p>>)]

\* faulty variant: the empty selection is not detected
NoneSelectedNever(selected) == FALSE

\* "if not selected" (graph.py:264)
NoneSelected(selected) == selected = <<>>

RECURSIVE DictFold(_, _)
\* by_day after the first n assignments by_day[day] = path
DictFold(selected, n) ==
  IF n = 0 THEN [d \in {} |-> <<>>]
  ELSE LET prev == DictFold(selected, n - 1)
           day == selected[n][1]
       IN [d \in (DOMAIN prev) \cup {day} |-> IF d = day THEN selected[n][2] ELSE prev[d]]

RECURSIVE ItemsByKey(_)
\* sorted(by_day.items(), key=lambda x: x[0])
ItemsByKey(by_day) ==
  IF DOMAIN by_day = {} THEN <<>>
  ELSE LET lo == CHOOSE d \in DOMAIN by_day : \A e \in DOMAIN by_day : d <= e
       IN <<<<lo, by_day[lo]>>>> \o ItemsByKey([d \in (DOMAIN by_day) \ {lo} |-> by_day[d]])

RECURSIVE SortByDay(_)
SortByDay(selected) ==
  IF selected = <<>> THEN <<>>
  ELSE LET rest == SortByDay(Tail(selected))
           x == Head(selected)
           before == SelectSeq(rest, LAMBDA y : y[1] < x[1])
           after == SelectSeq(rest, LAMBDA y : ~(y[1] < x[1]))
       IN before \o <<x>> \o after

\* faulty variant: every selected file is kept, in day order
_dedupe_by_date_keep_all(selected) == SortByDay(selected)

_dedupe_by_date(selected) == ItemsByKey(DictFold(selected, Len(selected)))

\* ------------------------------------------------------- inputs of a run
D2(n) == <<48 + (n \div 10), 48 + (n % 10)>>
D4(y) == D2(y \div 100) \o D2(y % 100)

FmtIso(y, m, d) == D4(y) \o <<Hyphen>> \o D2(m) \o <<Hyphen>> \o D2(d)   \* YYYY-MM-DD
FmtCompact(y, m, d) == D4(y) \o D2(m) \o D2(d)                           \* YYYYMMDD
FmtDmy(y, m, d) == D2(d) \o <<Hyphen>> \o D2(m) \o <<Hyphen>> \o D4(y)   \* DD-MM-YYYY

Underscore == <<95>>
AdsTif == <<95, 65, 68, 83, 46, 116, 105, 102>>      \* "_ADS.tif"
UpperTif == <<46, 84, 73, 70>>                       \* ".TIF"
TxtExt == <<46, 116, 120, 116>>                      \* ".txt"
Latest == <<108, 97, 116, 101, 115, 116>>            \* "latest"
BadDate == D4(2025) \o <<Hyphen>> \o D2(13) \o <<Hyphen>> \o D2(45)   \* "2025-13-45"

\* directory entries a pollutant folder may hold
Catalogue(g) ==
  { g \o Underscore \o FmtIso(2025, 12, 20) \o TifExt,
    g \o Underscore \o FmtIso(2025, 12, 20) \o AdsTif,
    g \o Underscore \o FmtCompact(2025, 12, 19) \o UpperTif,
    g \o Underscore \o FmtDmy(2025, 12, 14) \o TifExt,
    g \o Underscore \o FmtIso(2025, 11, 21) \o TifExt,
    g \o Underscore \o FmtIso(2025, 11, 20) \o TifExt,
    g \o Underscore \o FmtIso(2025, 12, 21) \o TifExt,
    g \o Underscore \o Latest \o TifExt,
    g \o Underscore \o BadDate \o TifExt,
    g \o Underscore \o FmtIso(2025, 12, 18) \o TxtExt }

\* os.listdir results: at most MaxFiles distinct entries in any order
Listings(g) ==
  {l \in UNION {[1..n -> Catalogue(g)] : n \in 0..MaxFiles} :
     \A i, j \in 1..Len(l) : i # j => l[i] # l[j]}

GasInputs == {lower(CO)}                             \* "co"
DateInputs == {FmtIso(2025, 12, 20), FmtDmy(2025, 12, 20)}
LookbackInputs == {7, 15, 30, 10}
BoundaryOutcomes == {"ok", "no_dataset", "no_srs", "no_feature", "no_geometry"}

RastersRoot == <<82>>                                \* "R"

\* decimal quantum of the samples of a pollutant's rasters
QuantumOf(gas) ==
  IF gas = CH4 THEN 0
  ELSE IF gas \in {NO2, SO2, HCHO} THEN -9
  ELSE -3

\* clipped.values.flatten() of the raster at tif_path (graph.py:271-274)
ClippedValues(tif_path) ==
  <<Fin(Len(tif_path)), Fin(3 * Len(tif_path) + 1), NaN>>

\* ----------------------------------------------------------------- state
VARIABLES
  pc,            \* position in make_grafik
  gas_in, date_str, lookback_in,     \* arguments of the call
  isdir, listing,                    \* the pollutant folder: exists, os.listdir
  gas, lookback_days, end_dt, start_dt,
  tiffs, idx, selected, points, err, out_path,
  xticks,        \* what the chart's x axis takes its major ticks from
  m_pc, m_gas_in, m_gas, m_values, m_nodata, m_quantum, m_stat,   \* one zonal mean
  s_pc, arr, zero_mask, vmin_clip, vmax_clip, norm,               \* make_screens
  s_band, s_nodata, zero_layer       \* the band as stored, its declared no-data value, the overlay

gvars == <<pc, gas_in, date_str, lookback_in, isdir, listing, gas, lookback_days,
           end_dt, start_dt, tiffs, idx, selected, points, err, out_path, xticks>>
mvars == <<m_pc, m_gas_in, m_gas, m_values, m_nodata, m_quantum, m_stat>>
svars == <<s_pc, arr, zero_mask, vmin_clip, vmax_clip, norm, s_band, s_nodata, zero_layer>>

None == <<>>

GrafikIdle ==
  /\ pc = "idle" /\ gas_in = None /\ date_str = None /\ lookback_in = 0
  /\ isdir = FALSE /\ listing = <<>>
  /\ gas = None /\ lookback_days = 0 /\ end_dt = 0 /\ start_dt = 0
  /\ tiffs = <<>> /\ idx = 0 /\ selected = <<>> /\ points = <<>>
  /\ err = "" /\ out_path = None /\ xticks = None

MeanIdle ==
  /\ m_pc = "idle" /\ m_gas_in = None /\ m_gas = None /\ m_values = <<>>
  /\ m_nodata = NaN /\ m_quantum = 0 /\ m_stat = NaN

ScreensIdle ==
  /\ s_pc = "idle" /\ arr = <<>> /\ zero_mask = <<>>
  /\ vmin_clip = [c |-> 0, e |-> 0] /\ vmax_clip = [c |-> 0, e |-> 0] /\ norm = <<>>
  /\ s_band = <<>> /\ s_nodata = [k |-> "fin", n |-> 0] /\ zero_layer = <<>>

VARIABLES
  l_pc, l_features, l_filter, l_cursor,      \* a boundary layer: features, filter, cursor
  l_key, l_feat, l_name, l_seen, l_calls,    \* a lookup by parent_cod and a later iteration
  l_caller, l_srs, l_vec_srs                 \* who opened the layer, its SRS, the SRS used

lvars == <<l_pc, l_features, l_filter, l_cursor, l_key, l_feat, l_name, l_seen, l_calls,
           l_caller, l_srs, l_vec_srs>>

NoFilter == -1       \* SetAttributeFilter(None)
NoFeature == [parent_cod |-> -1, region_nam |-> "", region_name |-> ""]
Srs(code) == [epsg |-> code]      \* a spatial reference; code 0 is the empty one
NoSrs == [epsg |-> -1]            \* GetSpatialRef() returned None

LayerIdle ==
  /\ l_pc = "idle" /\ l_features = <<>> /\ l_filter = NoFilter /\ l_cursor = 0
  /\ l_key = 0 /\ l_feat = NoFeature /\ l_name = "" /\ l_seen = <<>> /\ l_calls = 0
  /\ l_caller = "" /\ l_srs = NoSrs /\ l_vec_srs = NoSrs

VARIABLES
  c_pc, c_dts, c_ys, c_n_points,     \* _smooth_curve: position and arguments
  c_x, c_y, c_x_new, c_y_new,        \* merged points, output grid, output curve
  c_tried, c_ret                     \* tiers tried so far, the value returned

cvars == <<c_pc, c_dts, c_ys, c_n_points, c_x, c_y, c_x_new, c_y_new, c_tried, c_ret>>

SmoothIdle ==
  /\ c_pc = "idle" /\ c_dts = <<>> /\ c_ys = <<>> /\ c_n_points = 0
  /\ c_x = <<>> /\ c_y = <<>> /\ c_x_new = <<>> /\ c_y_new = <<>>
  /\ c_tried = <<>> /\ c_ret = <<>>

VARIABLES
  v_pc, v_mode, v_W, v_H,            \* render_one: position, mode, raster size
  v_extent, v_corners,               \* extent in raster SRS, its corners in pixels
  v_xlim, v_ylim                     \* what clamp_view hands to set_xlim / set_ylim

vvars == <<v_pc, v_mode, v_W, v_H, v_extent, v_corners, v_xlim, v_ylim>>

ViewIdle ==
  /\ v_pc = "idle" /\ v_mode = "" /\ v_W = 0 /\ v_H = 0
  /\ v_extent = <<>> /\ v_corners = <<>> /\ v_xlim = <<>> /\ v_ylim = <<>>

VARIABLES
  w_units, w_step, w_writes          \* two workers: their units, progress, files written

wvars == <<w_units, w_step, w_writes>>

WorkersIdle == w_units = <<>> /\ w_step = <<>> /\ w_writes = {}

VARIABLES
  o_pc, o_loop, o_units, o_i,        \* an orchestration loop over units of work
  o_attempted, o_failed              \* units started, units that raised

ovars == <<o_pc, o_loop, o_units, o_i, o_attempted, o_failed>>

LoopIdle ==
  /\ o_pc = "idle" /\ o_loop = "" /\ o_units = <<>> /\ o_i = 0
  /\ o_attempted = <<>> /\ o_failed = {}

VARIABLES
  r_pc, r_gas, r_date_str, r_listing,   \* one pollutant of build_docx: arguments, folder
  r_raster, r_series                    \* raster rendered by make_screens, series of make_grafik

rvars == <<r_pc, r_gas, r_date_str, r_listing, r_raster, r_series>>

ReportIdle ==
  /\ r_pc = "idle" /\ r_gas = <<>> /\ r_date_str = <<>> /\ r_listing = <<>>
  /\ r_raster = <<>> /\ r_series = <<>>

xvars == <<lvars, cvars, vvars, wvars, ovars, rvars>>
vars == <<gvars, mvars, svars, xvars>>

ExtraIdle == LayerIdle /\ SmoothIdle /\ ViewIdle /\ WorkersIdle /\ LoopIdle /\ ReportIdle

\* what each of the later machines leaves alone
lrest == <<gvars, mvars, svars, cvars, vvars, wvars, ovars, rvars>>
crest == <<gvars, mvars, svars, lvars, vvars, wvars, ovars, rvars>>
vrest == <<gvars, mvars, svars, lvars, cvars, wvars, ovars, rvars>>
wrest == <<gvars, mvars, svars, lvars, cvars, vvars, ovars, rvars>>
orest == <<gvars, mvars, svars, lvars, cvars, vvars, wvars, rvars>>
rrest == <<gvars, mvars, svars, lvars, cvars, vvars, wvars, ovars>>
BaseIdle == GrafikIdle /\ MeanIdle /\ ScreensIdle /\ ReportIdle
LayerRestIdle == BaseIdle /\ SmoothIdle /\ ViewIdle /\ WorkersIdle /\ LoopIdle
SmoothRestIdle == BaseIdle /\ LayerIdle /\ ViewIdle /\ WorkersIdle /\ LoopIdle
ViewRestIdle == BaseIdle /\ LayerIdle /\ SmoothIdle /\ WorkersIdle /\ LoopIdle
WorkersRestIdle == BaseIdle /\ LayerIdle /\ SmoothIdle /\ ViewIdle /\ LoopIdle
LoopRestIdle == BaseIdle /\ LayerIdle /\ SmoothIdle /\ ViewIdle /\ WorkersIdle
ReportRestIdle ==
  /\ GrafikIdle /\ MeanIdle /\ ScreensIdle
  /\ LayerIdle /\ SmoothIdle /\ ViewIdle /\ WorkersIdle /\ LoopIdle

\* ------------------------------------------------------------ make_grafik
Init ==
  /\ pc = "call"
  /\ gas_in \in GasInputs
  /\ date_str \in DateInputs
  /\ lookback_in \in LookbackInputs
  /\ isdir \in BOOLEAN
  /\ listing \in (IF isdir THEN Listings(upper(gas_in)) ELSE {<<>>})
  /\ gas = None /\ lookback_days = 0 /\ end_dt = 0 /\ start_dt = 0
  /\ tiffs = <<>> /\ idx = 0 /\ selected = <<>> /\ points = <<>>
  /\ err = "" /\ out_path = None /\ xticks = None
  /\ MeanIdle /\ ScreensIdle /\ ExtraIdle

Raise(e) ==
  /\ pc' = "error"
  /\ err' = e

\* graph.py:230-238
Enter ==
  /\ pc = "call"
  /\ gas' = upper(gas_in)
  /\ lookback_days' = CoerceLookback(lookback_in)
  /\ LET e == strptime(date_str, "%Y-%m-%d")
     IN IF e = ValueError
        THEN Raise("ValueError: date_str") /\ UNCHANGED <<end_dt, start_dt>>
        ELSE /\ end_dt' = e
             /\ start_dt' = WindowStart(e, CoerceLookback(lookback_in))
             /\ pc' = "boundary"
             /\ err' = err
  /\ UNCHANGED <<xticks, gas_in, date_str, lookback_in, isdir, listing,
                 tiffs, idx, selected, points, out_path>>
  /\ UNCHANGED <<mvars, svars, xvars>>

\* graph.py:240-248: the boundary layer is opened and the region looked up
OpenBoundary ==
  /\ pc = "boundary"
  /\ \E o \in BoundaryOutcomes :
       IF o = "ok" THEN pc' = "list" /\ err' = err
       ELSE Raise("RuntimeError: boundary")
  /\ UNCHANGED <<xticks, gas_in, date_str, lookback_in, isdir, listing, gas, lookback_days,
                 end_dt, start_dt, tiffs, idx, selected, points, out_path>>
  /\ UNCHANGED <<mvars, svars, xvars>>

Folder == join(RastersRoot, gas)

\* graph.py:250-254
ListTiffs ==
  /\ pc = "list"
  /\ tiffs' = _list_tiffs(isdir, Folder, listing)
  /\ IF tiffs' = <<>>
     THEN Raise("RuntimeError: no tif") /\ idx' = idx
     ELSE pc' = "select" /\ idx' = 1 /\ err' = err
  /\ UNCHANGED <<xticks, gas_in, date_str, lookback_in, isdir, listing, gas, lookback_days,
                 end_dt, start_dt, selected, points, out_path>>
  /\ UNCHANGED <<mvars, svars, xvars>>

\* graph.py:255-262, one file
SelectNext ==
  /\ pc = "select"
  /\ idx <= Len(tiffs)
  /\ LET r == SelectStep(selected, tiffs[idx], start_dt, end_dt)
     IN IF r.raised
        THEN Raise("ValueError: filename") /\ UNCHANGED <<idx, selected>>
        ELSE /\ selected' = r.selected
             /\ idx' = idx + 1
             /\ UNCHANGED <<pc, err>>
  /\ UNCHANGED <<xticks, gas_in, date_str, lookback_in, isdir, listing, gas, lookback_days,
                 end_dt, start_dt, tiffs, points, out_path>>
  /\ UNCHANGED <<mvars, svars, xvars>>

\* graph.py:264-269
Dedupe ==
  /\ pc = "select"
  /\ idx > Len(tiffs)
  /\ IF NoneSelected(selected)
     THEN Raise("RuntimeError: no tif in range") /\ UNCHANGED <<idx, selected>>
     ELSE /\ selected' = _dedupe_by_date(selected)
          /\ idx' = idx
          /\ pc' = "stats"
          /\ err' = err
  /\ UNCHANGED <<xticks, gas_in, date_str, lookback_in, isdir, listing, gas, lookback_days,
                 end_dt, start_dt, tiffs, points, out_path>>
  /\ UNCHANGED <<mvars, svars, xvars>>

\* graph.py:269-274: the statistic of every selected date
ComputePoints ==
  /\ pc = "stats"
  /\ points' = [i \in 1..Len(selected) |->
                  <<selected[i][1],
                    _compute_mean(gas, ClippedValues(selected[i][2]), QuantumOf(gas))>>]
  /\ pc' = "chart"
  /\ UNCHANGED <<xticks, gas_in, date_str, lookback_in, isdir, listing, gas, lookback_days,
                 end_dt, start_dt, tiffs, idx, selected, err, out_path>>
  /\ UNCHANGED <<mvars, svars, xvars>>

GrafikSuffix == <<95, 103, 114, 97, 102, 105, 107, 46, 112, 110, 103>>   \* "_grafik.png"

\* _build_chart_png, lines 210-215: the ticks are the dates of the points
\* for 7 days, a DayLocator for 15, an AutoDateLocator otherwise
MajorTicks(dts, lookback) ==
  IF lookback = 7 THEN [kind |-> "set_xticks", at |-> dts]
  ELSE IF lookback = 15 THEN [kind |-> "DayLocator", interval |-> 2]
  ELSE [kind |-> "AutoDateLocator", minticks |-> 6, maxticks |-> 15]

\* graph.py:276-290
WriteChart ==
  /\ pc = "chart"
  /\ xticks' = MajorTicks([i \in 1..Len(points) |-> points[i][1]], lookback_days)
  /\ out_path' = gas \o Underscore \o date_str \o GrafikSuffix
  /\ pc' = "done"
  /\ UNCHANGED <<gas_in, date_str, lookback_in, isdir, listing, gas, lookback_days,
                 end_dt, start_dt, tiffs, idx, selected, points, err>>
  /\ UNCHANGED <<mvars, svars, xvars>>

Next ==
  \/ Enter
  \/ OpenBoundary
  \/ ListTiffs
  \/ SelectNext
  \/ Dedupe
  \/ ComputePoints
  \/ WriteChart

Spec == Init /\ [][Next]_vars

\* ------------------------------------------- the statistic of one date
\* gas.upper() (graph.py:230) followed by _compute_mean on the clipped
\* samples of one raster (graph.py:274)
MeanGasInputs == {CH4, lower(CH4), NO2, lower(SO2), HCHO, CO}
SampleValues ==
  {Fin(2), Fin(5), Fin(-9999), NaN, PosInf, NegInf, Big(1), Big(-5)}
NoDataInputs == {Fin(-9999), NaN}

SeqsUpTo(S, n) == UNION {[1..k -> S] : k \in 0..n}

InitMean ==
  /\ m_pc = "call"
  /\ m_gas_in \in MeanGasInputs
  /\ m_quantum \in {QuantumOf(upper(m_gas_in)), QuantumOf(upper(m_gas_in)) + 3}
  /\ m_values \in SeqsUpTo(SampleValues, MaxCells)
  /\ m_nodata \in NoDataInputs
  /\ m_gas = None
  /\ m_stat = NaN
  /\ GrafikIdle /\ ScreensIdle /\ ExtraIdle

\* graph.py:230
MeanEnter ==
  /\ m_pc = "call"
  /\ m_gas' = upper(m_gas_in)
  /\ m_pc' = "clipped"
  /\ UNCHANGED <<m_gas_in, m_values, m_nodata, m_quantum, m_stat>>
  /\ UNCHANGED <<gvars, svars, xvars>>

\* graph.py:274
MeanCompute ==
  /\ m_pc = "clipped"
  /\ m_stat' = _compute_mean(m_gas, m_values, m_quantum)
  /\ m_pc' = "done"
  /\ UNCHANGED <<m_gas_in, m_gas, m_values, m_nodata, m_quantum>>
  /\ UNCHANGED <<gvars, svars, xvars>>

NextMean ==
  \/ MeanEnter
  \/ MeanCompute

SpecMean == InitMean /\ [][NextMean]_vars

\* ------------------------------------------------------------ make_screens
PCLIP_LOW == 2
PCLIP_HIGH == 98

\* smallest magnitude (in hundredths) at which float64 x + 1e-12 == x:
\* 2^14 = 16384, where the spacing of doubles reaches 2^-38 > 2e-12
AbsorbFrom == 1638400

ScreenValues ==
  {Fin(0), Fin(1), Fin(3), Fin(-2), Fin(16384), Fin(20000), NaN, PosInf, NegInf}

RECURSIVE InsertNum(_, _)
InsertNum(s, x) ==
  IF s = <<>> THEN <<x>>
  ELSE IF x < Head(s) THEN <<x>> \o s
  ELSE <<Head(s)>> \o InsertNum(Tail(s), x)

RECURSIVE SortNum(_)
SortNum(s) == IF s = <<>> THEN <<>> ELSE InsertNum(SortNum(Tail(s)), Head(s))

\* np.percentile(v, q) in hundredths, linear interpolation between the
\* order statistics around q/100 * (n - 1); v holds the finite samples
percentile(v, q) ==
  LET sv == SortNum(v)
      pos == q * (Len(sv) - 1)
      lo == pos \div 100
      fr == pos % 100
  IN IF fr = 0 THEN 100 * sv[lo + 1]
     ELSE 100 * sv[lo + 1] + fr * (sv[lo + 2] - sv[lo + 1])

\* a clip bound: c hundredths plus e times 1e-12
Bound(c, e) == [c |-> c, e |-> e]

\* float64 x + 1e-12 (rasterimage.py:183)
AddEpsilon(x) ==
  IF x.c >= AbsorbFrom \/ x.c < -AbsorbFrom THEN x ELSE Bound(x.c, x.e + 1)

\* a stored float64 sample too small for float32 (magnitude below 2^-150)
Tiny == [k |-> "tiny", n |-> 0]
BandValues == ScreenValues \cup {Tiny}
BandNoData == {Fin(0), Fin(-2)}

\* .astype(np.float32) (rasterimage.py:171): the integers of the model are
\* exact in float32, a tiny sample underflows to 0.0
astype_float32(v) == IF v = Tiny THEN Fin(0) ELSE v

\* faulty variant: cells that are not numbers are masked as well
ZeroMaskOrNaN(a) == [i \in 1..Len(a) |-> a[i] = Fin(0) \/ a[i] = NaN]

\* arr == 0.0 (rasterimage.py:173)
ZeroMask(a) == [i \in 1..Len(a) |-> a[i] = Fin(0)]

\* np.isfinite(arr) & ~zero_mask (rasterimage.py:175)
ValidSamples(a) ==
  LET keep == SelectSeq(a, LAMBDA x : x.k = "fin" /\ x # Fin(0))
  IN [i \in 1..Len(keep) |-> keep[i].n]

\* rasterimage.py:176-183
ClipRange(a) ==
  LET v == ValidSamples(a)
  IN IF v = <<>> THEN <<Bound(0, 0), Bound(100, 0)>>
     ELSE LET lo == Bound(percentile(v, PCLIP_LOW), 0)
              hi == Bound(percentile(v, PCLIP_HIGH), 0)
          IN IF hi = lo THEN <<lo, AddEpsilon(lo)>> ELSE <<lo, hi>>

NormFin(num, den) == [k |-> "fin", num |-> num, den |-> den]
NormNaN == [k |-> "nan", num |-> 0, den |-> 1]

\* np.clip((x - vmin) / (vmax - vmin), 0.0, 1.0) for one cell
\* (rasterimage.py:185): IEEE division, then clip, which keeps NaN
NormCell(x, lo, hi) ==
  LET dc == hi.c - lo.c
      de == hi.e - lo.e
      num == 100 * x.n - lo.c
  IN IF x.k = "nan" THEN NormNaN
     ELSE IF x.k = "inf" THEN NormFin(1, 1)
     ELSE IF x.k = "ninf" THEN NormFin(0, 1)
     ELSE IF dc = 0 /\ de = 0
          THEN (IF num = 0 THEN NormNaN
                ELSE IF num > 0 THEN NormFin(1, 1) ELSE NormFin(0, 1))
     ELSE IF dc = 0
          THEN (IF num > 0 THEN NormFin(1, 1) ELSE NormFin(0, 1))
     ELSE IF num <= 0 THEN NormFin(0, 1)
     ELSE IF num >= dc THEN NormFin(1, 1)
     ELSE NormFin(num, dc)

InitScreens ==
  /\ s_pc = "open"
  /\ s_band \in SeqsUpTo(BandValues, MaxCells) \ {<<>>}
  /\ s_nodata \in BandNoData
  /\ arr = <<>>
  /\ zero_layer = <<>>
  /\ zero_mask = <<>>
  /\ vmin_clip = Bound(0, 0)
  /\ vmax_clip = Bound(0, 0)
  /\ norm = <<>>
  /\ GrafikIdle /\ MeanIdle /\ ExtraIdle

\* rasterimage.py:169-171; the band's no-data value is not asked for
ScreensRead ==
  /\ s_pc = "open"
  /\ arr' = [i \in 1..Len(s_band) |-> astype_float32(s_band[i])]
  /\ s_pc' = "read"
  /\ UNCHANGED <<zero_mask, vmin_clip, vmax_clip, norm, s_band, s_nodata, zero_layer>>
  /\ UNCHANGED <<gvars, mvars, xvars>>

\* rasterimage.py:173
ScreensMask ==
  /\ s_pc = "read"
  /\ zero_mask' = ZeroMask(arr)
  /\ s_pc' = "masked"
  /\ UNCHANGED <<arr, vmin_clip, vmax_clip, norm, s_band, s_nodata, zero_layer>>
  /\ UNCHANGED <<gvars, mvars, xvars>>

\* rasterimage.py:175-183
ScreensRange ==
  /\ s_pc = "masked"
  /\ vmin_clip' = ClipRange(arr)[1]
  /\ vmax_clip' = ClipRange(arr)[2]
  /\ s_pc' = "ranged"
  /\ UNCHANGED <<arr, zero_mask, norm, s_band, s_nodata, zero_layer>>
  /\ UNCHANGED <<gvars, mvars, xvars>>

\* rasterimage.py:185
ScreensNormalize ==
  /\ s_pc = "ranged"
  /\ norm' = [i \in 1..Len(arr) |-> NormCell(arr[i], vmin_clip, vmax_clip)]
  /\ s_pc' = "normalized"
  /\ UNCHANGED <<arr, zero_mask, vmin_clip, vmax_clip, s_band, s_nodata, zero_layer>>
  /\ UNCHANGED <<gvars, mvars, xvars>>

\* rasterimage.py:200 and 222-223: np.where(zero_mask, 1, 0), drawn above
\* the colour layer with colour 1 opaque and colour 0 transparent
ScreensOverlay ==
  /\ s_pc = "normalized"
  /\ zero_layer' = [i \in 1..Len(zero_mask) |-> IF zero_mask[i] THEN 1 ELSE 0]
  /\ s_pc' = "overlaid"
  /\ UNCHANGED <<arr, zero_mask, vmin_clip, vmax_clip, norm, s_band, s_nodata>>
  /\ UNCHANGED <<gvars, mvars, xvars>>

NextScreens ==
  \/ ScreensRead
  \/ ScreensOverlay
  \/ ScreensMask
  \/ ScreensRange
  \/ ScreensNormalize

SpecScreens == InitScreens /\ [][NextScreens]_vars

\* ------------------------------------------------ claims on make_grafik
\* the window the claims name: the requested lookback if it is 7, 15 or 30, else 30
ClaimedWindow == IF lookback_in \in {7, 15, 30} THEN lookback_in ELSE 30

InClaimedWindow(d) == d >= end_dt - (ClaimedWindow - 1) /\ d <= end_dt

\* the .tif paths of the pollutant folder
TifPaths ==
  IF isdir
  THEN {join(join(RastersRoot, upper(gas_in)), listing[i]) :
          i \in {j \in 1..Len(listing) : IsTifName(listing[j])}}
  ELSE {}

\* <<day, path>> of every path given whose name parses to a day of the window
InWindowOf(paths) ==
  LET dated == {<<_parse_date_from_filename(p), p>> : p \in paths}
  IN {x \in dated : x[1] # ValueError /\ InClaimedWindow(x[1])}

DaysOf(w) == {x[1] : x \in w}

\* the entry of day d whose path is lexicographically last
LastOf(d, w) ==
  CHOOSE x \in w : /\ x[1] = d
                   /\ \A y \in w : y[1] = d => (y = x \/ StrLess(y[2], x[2]))

\* C1: the assembled series holds exactly one (date, statistic) entry for each
\* calendar day that has at least one in-window file, however many files map
\* to that day.
C1_OneEntryPerDay ==
  pc \in {"stats", "chart", "done"} =>
    LET days == DaysOf(InWindowOf(TifPaths))
    IN /\ Len(selected) = Cardinality(days)
       /\ \A d \in days : Cardinality({i \in DOMAIN selected : selected[i][1] = d}) = 1
       /\ pc \in {"chart", "done"} =>
            /\ Len(points) = Cardinality(days)
            /\ \A d \in days : Cardinality({i \in DOMAIN points : points[i][1] = d}) = 1

C1_Witness ==
  /\ pc = "done"
  /\ LET w == InWindowOf(TifPaths)
     IN /\ Cardinality(DaysOf(w)) >= 2
        /\ \E x, y \in w : x # y /\ x[1] = y[1]

\* C2: the dates of the assembled series are strictly increasing and every
\* date d satisfies end - (W - 1) <= d <= end, W being the requested lookback
\* if it is 7, 15 or 30 and 30 otherwise.
C2_IncreasingInWindow ==
  /\ \A i \in DOMAIN points :
       /\ InClaimedWindow(points[i][1])
       /\ i > 1 => points[i - 1][1] < points[i][1]
  /\ pc \in {"stats", "chart", "done"} =>
       \A i \in DOMAIN selected :
         /\ InClaimedWindow(selected[i][1])
         /\ i > 1 => selected[i - 1][1] < selected[i][1]

C2_Witness ==
  /\ pc = "done"
  /\ lookback_in \notin {7, 15, 30}
  /\ Len(points) >= 2
  /\ points[1][1] = end_dt - 29
  /\ points[Len(points)][1] = end_dt

\* C3: when several in-window files map to one calendar day, the raster used
\* for that day's statistic is the one whose full path is lexicographically
\* last among them, whatever order the directory listing has.
C3_LastPathWins ==
  pc \in {"stats", "chart", "done"} =>
    LET w == InWindowOf(TifPaths)
    IN /\ \A i \in DOMAIN selected :
            /\ selected[i][1] \in DaysOf(w)
            /\ selected[i] = LastOf(selected[i][1], w)
       /\ \A i \in DOMAIN points :
            /\ points[i][1] \in DaysOf(w)
            /\ points[i][2] = _compute_mean(upper(gas_in),
                                 ClippedValues(LastOf(points[i][1], w)[2]),
                                 QuantumOf(upper(gas_in)))

C3_Witness ==
  /\ pc = "done"
  /\ \E i, j \in 1..Len(listing) :
       /\ i < j
       /\ StrLess(listing[j], listing[i])
       /\ basename(selected[Len(selected)][2]) = listing[i]
       /\ _parse_date_from_filename(listing[j]) = selected[Len(selected)][1]

\* C4: make_grafik fails whenever zero dates survive parsing and window
\* filtering; it never reaches the chart or returns from an empty series.
C4_EmptySeriesFails ==
  (pc \in {"stats", "chart", "done"} \/ out_path # None) =>
     (InWindowOf(TifPaths) # {} /\ selected # <<>>)

C4_Witness ==
  /\ pc = "error"
  /\ err = "RuntimeError: no tif in range"
  /\ InWindowOf(TifPaths) = {}
  /\ \E p \in TifPaths : _parse_date_from_filename(p) # ValueError

\* a name holds a date in one of the encodings YYYY-MM-DD, YYYYMMDD, DD-MM-YYYY
HasDate(s) ==
  \E i \in 1..Len(s) :
    \/ /\ IsDigitsAt(s, i, 4) /\ IsCharAt(s, i + 4, Hyphen) /\ IsDigitsAt(s, i + 5, 2)
       /\ IsCharAt(s, i + 7, Hyphen) /\ IsDigitsAt(s, i + 8, 2)
       /\ toordinal(IntOf(s, i, 4), IntOf(s, i + 5, 2), IntOf(s, i + 8, 2)) # ValueError
    \/ /\ IsDigitsAt(s, i, 8)
       /\ toordinal(IntOf(s, i, 4), IntOf(s, i + 4, 2), IntOf(s, i + 6, 2)) # ValueError
    \/ /\ IsDigitsAt(s, i, 2) /\ IsCharAt(s, i + 2, Hyphen) /\ IsDigitsAt(s, i + 3, 2)
       /\ IsCharAt(s, i + 5, Hyphen) /\ IsDigitsAt(s, i + 6, 4)
       /\ toordinal(IntOf(s, i + 6, 4), IntOf(s, i + 3, 2), IntOf(s, i, 2)) # ValueError

\* the series of the folder once the files without a date are taken away
SeriesWithoutUndated ==
  LET w == InWindowOf({p \in TifPaths : HasDate(basename(p))})
  IN {LastOf(d, w) : d \in DaysOf(w)}

\* C5: a file whose name holds no date is skipped without raising: the series
\* is the one of the folder without that file, the other files are processed.
C5_UndatedSkipped ==
  /\ err # "ValueError: filename"
  /\ pc \in {"stats", "chart", "done"} \/ err = "RuntimeError: no tif in range" =>
       LET ref == SeriesWithoutUndated
       IN /\ pc = "error" => ref = {}
          /\ pc # "error" =>
               /\ {selected[i] : i \in DOMAIN selected} = ref
               /\ Len(selected) = Cardinality(ref)
          /\ pc \in {"chart", "done"} => {points[i][1] : i \in DOMAIN points} = DaysOf(ref)

C5_Witness ==
  /\ pc = "done"
  /\ \E i, j \in 1..Len(tiffs) :
       /\ i < j
       /\ tiffs[j] \in {selected[k][2] : k \in DOMAIN selected}
       /\ ~HasDate(basename(tiffs[i]))

\* --------------------------------------------- claims on the zonal mean
\* round(S * 10^e / c, 3 decimals of the unit) as an integer
RoundScaled(S, c, e) ==
  RoundHalfEven(S * Pow10(IF e > 0 THEN e ELSE 0), c * Pow10(IF e < 0 THEN -e ELSE 0))

\* the statistic the claims give for the cells that count, in thousandths:
\* round(m / 1000, 3) for CH4, round(m * 1e6, 3) for NO2, SO2 and HCHO,
\* round(m, 3) otherwise, m the mean of cells (multiples of 10^q)
ClaimedStat(g, cells, q) ==
  LET S == SumFin(cells)
      c == Len(cells)
  IN IF g = <<67, 72, 52>> THEN RoundScaled(S, c, q)
     ELSE IF g \in {<<78, 79, 50>>, <<83, 79, 50>>, <<72, 67, 72, 79>>}
          THEN RoundScaled(S, c, q + 9)
     ELSE RoundScaled(S, c, q + 3)

\* a cell that is neither the declared sentinel, nor non-finite, nor of a
\* magnitude beyond the fill threshold
CountsAsData(v) == v.k = "fin" /\ v # m_nodata

\* C6: cells equal to the raster's no-data sentinel and cells whose magnitude
\* exceeds the fill threshold never contribute: the statistic is the mean of
\* the remaining valid cells.
C6_NoDataExcluded ==
  m_pc = "done" =>
    LET cells == SelectSeq(m_values, CountsAsData)
    IN m_stat = IF cells = <<>> THEN Fin(0)
                ELSE Fin(ClaimedStat(upper(m_gas_in), cells, m_quantum))

\* no cell is left by the filter: every cell is non-finite or at or above 1e20
NoCellRemains ==
  \A i \in DOMAIN m_values :
    \/ m_values[i].k \in {"nan", "inf", "ninf"}
    \/ m_values[i].k = "big" /\ m_values[i].n >= 1

\* C7: if no cell remains after filtering (empty clip, all non-finite, all
\* above the fill threshold) the statistic is exactly 0.0 for every pollutant.
C7_EmptyGivesZero ==
  (m_pc = "done" /\ NoCellRemains) => m_stat = Fin(0)

C7_Witness ==
  /\ m_pc = "done"
  /\ NoCellRemains
  /\ m_gas = CH4
  /\ \E i, j \in DOMAIN m_values : m_values[i] = Big(1) /\ m_values[j] = NaN

\* C8: for raw mean m of the filtered values the statistic is round(m/1000, 3)
\* for CH4, round(m*1e6, 3) for NO2, SO2 and HCHO and round(m, 3) for any
\* other code, selected by the upper-cased pollutant code (stated where the
\* filtered values hold no -h * 10^20 term).
C8_UnitConversion ==
  (m_pc = "done" /\ FilterValues(m_values) # <<>> /\ SumBig(FilterValues(m_values)) = 0) =>
     m_stat = Fin(ClaimedStat(upper(m_gas_in), FilterValues(m_values), m_quantum))

C8_Witness ==
  /\ m_pc = "done"
  /\ m_gas_in = lower(CH4)
  /\ m_quantum = 0
  /\ FilterValues(m_values) = <<Fin(2), Fin(5)>>
  /\ m_stat = Fin(4)

\* C18: for window 7 the x axis has one tick per day of the plotted range,
\* days without a raster file included; window 15 has a tick every 2 days;
\* any other window has the automatic locator bounded to 6..15 ticks.
C18_TickPerDay ==
  pc = "done" =>
    LET first == points[1][1]
        last == points[Len(points)][1]
    IN /\ lookback_days = 7 =>
            /\ xticks.kind = "set_xticks"
            /\ xticks.at = [i \in 1..(last - first + 1) |-> first + i - 1]
       /\ lookback_days = 15 =>
            xticks = [kind |-> "DayLocator", interval |-> 2]
       /\ lookback_days \notin {7, 15} =>
            xticks = [kind |-> "AutoDateLocator", minticks |-> 6, maxticks |-> 15]

\* --------------------------------------------------- claims on make_screens
\* C9: every cell of the normalized array lies in [0, 1], cells that are
\* zero, non-finite or outside the percentile range included.
C9_NormInUnitInterval ==
  s_pc = "normalized" =>
    \A i \in DOMAIN norm :
      /\ norm[i].k = "fin"
      /\ 0 <= norm[i].num
      /\ norm[i].num <= norm[i].den

\* C10: the clip range satisfies vmin <= vmax and is never zero-width: it is
\* (0, 1) when no finite non-zero cell exists, and vmax is strictly greater
\* than vmin when the percentiles coincide, so vmax - vmin is never 0.
C10_RangeNeverZeroWidth ==
  s_pc \in {"ranged", "normalized"} =>
    /\ \/ vmin_clip.c < vmax_clip.c
       \/ vmin_clip.c = vmax_clip.c /\ vmin_clip.e < vmax_clip.e
    /\ ValidSamples(arr) = <<>> => (vmin_clip = Bound(0, 0) /\ vmax_clip = Bound(100, 0))

MaxFeatures == 3     \* most features of the boundary layer
MaxCalls == 2        \* lookups made on one layer

FeatureValues ==
  { [parent_cod |-> 100, region_nam |-> "Toshkent", region_name |-> ""],
    [parent_cod |-> 200, region_nam |-> "", region_name |-> "Samarqand"],
    [parent_cod |-> 200, region_nam |-> "", region_name |-> ""] }
KeyInputs == {100, 200, 300}

Layer(features, filter, cursor) ==
  [features |-> features, filter |-> filter, cursor |-> cursor]

\* lyr.SetAttributeFilter(f"parent_cod = {key}") / SetAttributeFilter(None):
\* OGR installs the filter and restarts the read
SetAttributeFilter(lyr, filter) == Layer(lyr.features, filter, 0)

\* lyr.ResetReading()
ResetReading(lyr) == Layer(lyr.features, lyr.filter, 0)

Matches(f, filter) == filter = NoFilter \/ f.parent_cod = filter

RECURSIVE NextMatchFrom(_, _)
\* index of the first feature after position i that passes the filter, 0 if none
NextMatchFrom(lyr, i) ==
  IF i >= Len(lyr.features) THEN 0
  ELSE IF Matches(lyr.features[i + 1], lyr.filter) THEN i + 1
  ELSE NextMatchFrom(lyr, i + 1)

\* lyr.GetNextFeature(): the feature read (NoFeature for None) and the layer after
GetNextFeature(lyr) ==
  LET j == NextMatchFrom(lyr, lyr.cursor)
  IN IF j = 0
     THEN [feat |-> NoFeature, lyr |-> Layer(lyr.features, lyr.filter, Len(lyr.features))]
     ELSE [feat |-> lyr.features[j], lyr |-> Layer(lyr.features, lyr.filter, j)]

\* faulty variant: the not-found error is raised before the filter is cleared
_get_feature_by_parent_cod_early_raise(lyr, parent_cod) ==
  LET r == GetNextFeature(SetAttributeFilter(lyr, parent_cod))
  IN IF r.feat = NoFeature
     THEN [raised |-> TRUE, feat |-> NoFeature, lyr |-> r.lyr]
     ELSE [raised |-> FALSE, feat |-> r.feat,
           lyr |-> ResetReading(SetAttributeFilter(r.lyr, NoFilter))]

\* _get_feature_by_parent_cod (rasterimage.py:87-94) and the same four calls
\* of _get_feature_and_name (graph.py:69-74)
_get_feature_by_parent_cod(lyr, parent_cod) ==
  LET r == GetNextFeature(SetAttributeFilter(lyr, parent_cod))
      after == ResetReading(SetAttributeFilter(r.lyr, NoFilter))
  IN [raised |-> r.feat = NoFeature, feat |-> r.feat, lyr |-> after]

RECURSIVE DigitsOf(_)
DigitsOf(n) == IF n < 10 THEN <<48 + n>> ELSE DigitsOf(n \div 10) \o <<48 + (n % 10)>>

\* feat.GetField("region_nam") or feat.GetField("region_name") or str(parent_cod)
\* (graph.py:75): the name is a string, the fallback str() the digits of the key
RegionName(feat, parent_cod) ==
  IF feat.region_nam # "" THEN [field |-> feat.region_nam, digits |-> <<>>]
  ELSE IF feat.region_name # "" THEN [field |-> feat.region_name, digits |-> <<>>]
  ELSE [field |-> "", digits |-> DigitsOf(parent_cod)]

\* _srs_axis (rasterimage.py:56-62): a missing SRS becomes the fallback EPSG
\* when one is given, the empty SRS otherwise
_srs_axis(srs, fallback_epsg) ==
  IF srs = NoSrs
  THEN (IF fallback_epsg # 0 THEN Srs(fallback_epsg) ELSE Srs(0))
  ELSE srs

CallerInputs == {"render_one", "make_grafik"}
SrsInputs == {NoSrs, Srs(4326)}

InitLayer ==
  /\ l_pc = "opened"
  /\ l_caller \in CallerInputs
  /\ l_srs \in SrsInputs
  /\ l_vec_srs = NoSrs
  /\ l_features \in SeqsUpTo(FeatureValues, MaxFeatures)
  /\ l_filter = NoFilter
  /\ l_cursor \in 0..Len(l_features)
  /\ l_key = 0 /\ l_feat = NoFeature /\ l_name = "" /\ l_seen = <<>> /\ l_calls = 0
  /\ LayerRestIdle

\* the caller takes the layer's SRS: render_one through _srs_axis with
\* fallback 3857 (rasterimage.py:227), make_grafik as it is, raising when
\* there is none (graph.py:241-243)
ResolveSrs ==
  /\ l_pc = "opened"
  /\ IF l_caller = "render_one"
     THEN l_vec_srs' = _srs_axis(l_srs, 3857) /\ l_pc' = "ready"
     ELSE /\ l_vec_srs' = l_srs
          /\ l_pc' = IF l_srs = NoSrs THEN "no_srs" ELSE "ready"
  /\ UNCHANGED <<l_features, l_filter, l_cursor, l_key, l_feat, l_name, l_seen, l_calls,
                 l_caller, l_srs>>
  /\ UNCHANGED lrest

\* one call of the lookup on the layer as the previous use left it
Lookup ==
  /\ l_pc \in {"ready", "returned", "raised"}
  /\ l_calls < MaxCalls
  /\ \E k \in KeyInputs :
       LET r == _get_feature_by_parent_cod(Layer(l_features, l_filter, l_cursor), k)
       IN /\ l_key' = k
          /\ l_feat' = r.feat
          /\ l_filter' = r.lyr.filter
          /\ l_cursor' = r.lyr.cursor
          /\ l_pc' = IF r.raised THEN "raised" ELSE "returned"
          /\ l_name' = IF r.raised THEN "" 
                       ELSE IF RegionName(r.feat, k).field # "" THEN RegionName(r.feat, k).field
                       ELSE "str(parent_cod)"
  /\ l_calls' = l_calls + 1
  /\ l_seen' = <<>>
  /\ UNCHANGED <<l_features, l_caller, l_srs, l_vec_srs>>
  /\ UNCHANGED lrest

\* a later reader takes the features one by one with GetNextFeature
IterateNext ==
  /\ l_pc \in {"returned", "raised", "iterating"}
  /\ LET r == GetNextFeature(Layer(l_features, l_filter, l_cursor))
     IN IF r.feat = NoFeature
        THEN /\ l_pc' = "iterated"
             /\ l_cursor' = r.lyr.cursor
             /\ UNCHANGED l_seen
        ELSE /\ l_pc' = "iterating"
             /\ l_cursor' = r.lyr.cursor
             /\ l_seen' = Append(l_seen, r.feat)
  /\ UNCHANGED <<l_features, l_filter, l_key, l_feat, l_name, l_calls, l_caller, l_srs, l_vec_srs>>
  /\ UNCHANGED lrest

\* the reader is done; the layer stays as it is for the next use
IterateEnd ==
  /\ l_pc = "iterated"
  /\ l_pc' = "ready"
  /\ UNCHANGED <<l_features, l_filter, l_cursor, l_key, l_feat, l_name, l_seen, l_calls,
                 l_caller, l_srs, l_vec_srs>>
  /\ UNCHANGED lrest

NextLayer ==
  \/ ResolveSrs
  \/ Lookup
  \/ IterateNext
  \/ IterateEnd

SpecLayer == InitLayer /\ [][NextLayer]_vars

\* C11: after every lookup by parent_cod the layer has no attribute filter and
\* its read cursor is reset, whether a feature was returned or the lookup
\* failed (it fails exactly when no feature has the key); a later iteration
\* over the layer sees all features.
C11_LookupLeavesLayerClean ==
  /\ l_pc \in {"returned", "raised"} =>
       /\ l_filter = NoFilter
       /\ l_cursor = 0
       /\ (l_pc = "raised") <=>
            (\A i \in DOMAIN l_features : l_features[i].parent_cod # l_key)
       /\ l_pc = "returned" => l_feat.parent_cod = l_key
  /\ (l_pc = "iterated" /\ l_calls > 0) => l_seen = l_features

C11_Witness ==
  /\ l_pc = "iterated"
  /\ l_calls = MaxCalls
  /\ l_key = 300
  /\ Len(l_features) >= 2
  /\ l_seen = l_features
  /\ \E i, j \in DOMAIN l_features :
       l_features[i].parent_cod = 100 /\ l_features[j].parent_cod = 200

\* C17: a boundary layer without a CRS is resolved to the fallback EPSG code
\* and causes no failure, in map rendering and in series assembly alike.
C17_NoCrsFallsBack ==
  (l_pc # "opened" /\ l_srs = NoSrs) =>
    (l_pc # "no_srs" /\ l_vec_srs = Srs(3857))

\* ------------------------------------------------ _smooth_curve
MaxPoints == 4       \* most points of a series handed to _smooth_curve

\* (date, value) points a series is made of; two share the first date
PointInputs ==
  { <<toordinal(2025, 12, 17), 1>>, <<toordinal(2025, 12, 17), 5>>,
    <<toordinal(2025, 12, 18), 2>>, <<toordinal(2025, 12, 19), 3>>,
    <<toordinal(2025, 12, 20), 4>> }
NPointsInputs == {10, 100}

\* mdates.date2num: days since 1970-01-01
date2num(dt) == dt - toordinal(1970, 1, 1)

Frac(n, d) == [n |-> n, d |-> d]

RECURSIVE InsertPoint(_, _)
InsertPoint(pts, p) ==
  IF pts = <<>> THEN <<p>>
  ELSE IF p[1] < Head(pts)[1] THEN <<p>> \o pts
  ELSE <<Head(pts)>> \o InsertPoint(Tail(pts), p)

RECURSIVE argsort(_)
\* x[order], y[order] of lines 136-138, as the points ordered by x
argsort(pts) ==
  IF pts = <<>> THEN <<>>
  ELSE InsertPoint(argsort(SubSeq(pts, 1, Len(pts) - 1)), pts[Len(pts)])

RECURSIVE MergeFrom(_, _, _, _)
\* the loop of lines 143-154: equal x are merged, y is the mean of the group
MergeFrom(pts, last, sum, count) ==
  IF pts = <<>> THEN <<[x |-> last, y |-> Frac(sum, count)]>>
  ELSE IF Head(pts)[1] = last
       THEN MergeFrom(Tail(pts), last, sum + Head(pts)[2], count + 1)
       ELSE <<[x |-> last, y |-> Frac(sum, count)]>>
              \o MergeFrom(Tail(pts), Head(pts)[1], Head(pts)[2], 1)

Merge(pts) ==
  IF pts = <<>> THEN <<>>
  ELSE MergeFrom(Tail(pts), Head(pts)[1], Head(pts)[2], 1)

Max2(a, b) == IF a >= b THEN a ELSE b

\* faulty variant: the grid stops one step short of the last date
linspace_open(start, stop, num) ==
  [i \in 1..num |-> Frac(start * num + (i - 1) * (stop - start), num)]

\* np.linspace(start, stop, num): num evenly spaced samples, the last one
\* set to stop itself
linspace(start, stop, num) ==
  [i \in 1..num |->
     IF i = num /\ num > 1 THEN Frac(stop, 1)
     ELSE Frac(start * (num - 1) + (i - 1) * (stop - start), Max2(num - 1, 1))]

\* np.interp(x_new, xp, fp) raises ValueError for an empty xp or for
\* xp and fp of different lengths, and for nothing else
interp(xn, xp, fp) ==
  IF Len(xp) = 0 \/ Len(xp) # Len(fp)
  THEN [raised |-> TRUE, y_new |-> <<>>]
  ELSE [raised |-> FALSE, y_new |-> [method |-> "interp", k |-> 1, at |-> Len(xn)]]

\* lines 165-177: the tier fails when the import or the spline raises
SplineTier(xs, ys, xn, fails) ==
  IF fails THEN [raised |-> TRUE, y_new |-> <<>>]
  ELSE IF Len(xs) >= 4
       THEN [raised |-> FALSE, y_new |-> [method |-> "make_interp_spline", k |-> 3, at |-> Len(xn)]]
  ELSE IF Len(xs) = 3
       THEN [raised |-> FALSE, y_new |-> [method |-> "make_interp_spline", k |-> 2, at |-> Len(xn)]]
  ELSE interp(xn, xs, ys)

\* faulty variant: a failing polyfit is not caught
PolyfitTierUncaught(xs, ys, xn, fails) ==
  LET deg == IF Len(xs) >= 4 THEN 3 ELSE IF Len(xs) = 3 THEN 2 ELSE 1
  IN IF fails
     THEN [raised |-> TRUE, y_new |-> <<>>, tried |-> <<"polyfit">>]
     ELSE [raised |-> FALSE, tried |-> <<"polyfit">>,
           y_new |-> [method |-> "polyfit", k |-> deg, at |-> Len(xn)]]

\* lines 180-187: polyfit of matching degree, np.interp when it raises
PolyfitTier(xs, ys, xn, fails) ==
  LET deg == IF Len(xs) >= 4 THEN 3 ELSE IF Len(xs) = 3 THEN 2 ELSE 1
  IN IF fails
     THEN [raised |-> interp(xn, xs, ys).raised, y_new |-> interp(xn, xs, ys).y_new,
           tried |-> <<"polyfit", "interp">>]
     ELSE [raised |-> FALSE, tried |-> <<"polyfit">>,
           y_new |-> [method |-> "polyfit", k |-> deg, at |-> Len(xn)]]

Zip(dts, ys) == [i \in 1..Len(dts) |-> <<date2num(dts[i]), ys[i]>>]

InitSmooth ==
  /\ c_pc = "call"
  /\ \E pts \in SeqsUpTo(PointInputs, MaxPoints) :
       /\ c_dts = [i \in 1..Len(pts) |-> pts[i][1]]
       /\ c_ys = [i \in 1..Len(pts) |-> pts[i][2]]
  /\ c_n_points \in NPointsInputs
  /\ c_x = <<>> /\ c_y = <<>> /\ c_x_new = <<>> /\ c_y_new = <<>>
  /\ c_tried = <<>> /\ c_ret = <<>>
  /\ SmoothRestIdle

\* lines 133-162: sort, merge equal dates, return at once for at most one point
SmoothPrepare ==
  /\ c_pc = "call"
  /\ LET m == Merge(argsort(Zip(c_dts, c_ys)))
         xs == [i \in 1..Len(m) |-> m[i].x]
         ys == [i \in 1..Len(m) |-> m[i].y]
     IN /\ c_x' = xs
        /\ c_y' = ys
        /\ IF Len(xs) <= 1
           THEN /\ c_pc' = "returned"
                /\ c_ret' = [x |-> xs, y |-> ys]
                /\ c_x_new' = c_x_new
           ELSE /\ c_pc' = "tier1"
                /\ c_x_new' = linspace(xs[1], xs[Len(xs)], Max2(50, c_n_points))
                /\ c_ret' = c_ret
  /\ UNCHANGED <<c_dts, c_ys, c_n_points, c_y_new, c_tried>>
  /\ UNCHANGED crest

\* lines 165-177: the spline tier; what it raises is swallowed
SmoothSpline ==
  /\ c_pc = "tier1"
  /\ \E fails \in BOOLEAN :
       LET r == SplineTier(c_x, c_y, c_x_new, fails)
       IN /\ c_tried' = Append(c_tried, [tier |-> "spline", ok |-> ~r.raised])
          /\ IF r.raised
             THEN c_pc' = "tier2" /\ UNCHANGED <<c_y_new, c_ret>>
             ELSE /\ c_pc' = "returned"
                  /\ c_y_new' = r.y_new
                  /\ c_ret' = [x |-> c_x_new, y |-> r.y_new]
  /\ UNCHANGED <<c_dts, c_ys, c_n_points, c_x, c_y, c_x_new>>
  /\ UNCHANGED crest

\* lines 180-187: the polynomial tier with its linear fallback
SmoothPolyfit ==
  /\ c_pc = "tier2"
  /\ \E fails \in BOOLEAN :
       LET r == PolyfitTier(c_x, c_y, c_x_new, fails)
       IN /\ c_tried' = c_tried \o
               [i \in 1..Len(r.tried) |->
                  [tier |-> r.tried[i], ok |-> (i = Len(r.tried)) /\ ~r.raised]]
          /\ IF r.raised
             THEN c_pc' = "raised" /\ UNCHANGED <<c_y_new, c_ret>>
             ELSE /\ c_pc' = "returned"
                  /\ c_y_new' = r.y_new
                  /\ c_ret' = [x |-> c_x_new, y |-> r.y_new]
  /\ UNCHANGED <<c_dts, c_ys, c_n_points, c_x, c_y, c_x_new>>
  /\ UNCHANGED crest

NextSmooth ==
  \/ SmoothPrepare
  \/ SmoothSpline
  \/ SmoothPolyfit

SpecSmooth == InitSmooth /\ [][NextSmooth]_vars

TierOrder == <<"spline", "polyfit", "interp">>

\* C12: _smooth_curve never raises: the tiers are tried in the order spline,
\* polynomial fit of matching degree, linear interpolation, each only after
\* the one before it failed, and the call always ends with a result.
C12_NeverRaises ==
  /\ c_pc # "raised"
  /\ Len(c_tried) <= 3
  /\ \A i \in DOMAIN c_tried :
       /\ c_tried[i].tier = TierOrder[i]
       /\ i > 1 => ~c_tried[i - 1].ok
  /\ (c_pc = "returned" /\ c_tried # <<>>) =>
       /\ c_tried[Len(c_tried)].ok
       /\ c_ret.y = c_y_new
       /\ Len(c_tried) = 2 =>
            /\ c_y_new.method = "polyfit"
            /\ c_y_new.k = (IF Len(c_x) >= 4 THEN 3 ELSE IF Len(c_x) = 3 THEN 2 ELSE 1)
       /\ Len(c_tried) = 3 => c_y_new.method = "interp"

C12_Witness ==
  /\ c_pc = "returned"
  /\ Len(c_tried) = 3
  /\ Len(c_x) >= 4
  /\ c_y_new.method = "interp"

DateSet == {c_dts[i] : i \in DOMAIN c_dts}
MinDate == CHOOSE d \in DateSet : \A e \in DateSet : d <= e
MaxDate == CHOOSE d \in DateSet : \A e \in DateSet : d >= e
FracIs(f, v) == f.n = v * f.d

\* C13: the output x-range is the input x-range: one input point is returned
\* unchanged, and with two or more distinct dates the first and the last
\* output x are the earliest and the latest input date, for every tier and
\* every order of the points.
C13_SameRange ==
  c_pc = "returned" =>
    /\ Len(c_dts) = 1 =>
         /\ c_ret.x = <<date2num(c_dts[1])>>
         /\ Len(c_ret.y) = 1 /\ FracIs(c_ret.y[1], c_ys[1])
    /\ Cardinality(DateSet) >= 2 =>
         /\ Len(c_ret.x) = Max2(50, c_n_points)
         /\ FracIs(c_ret.x[1], date2num(MinDate))
         /\ FracIs(c_ret.x[Len(c_ret.x)], date2num(MaxDate))

C13_Witness ==
  /\ c_pc = "returned"
  /\ Len(c_tried) = 2
  /\ Len(c_dts) = 2 /\ c_dts[1] > c_dts[2]
  /\ c_n_points = 100 /\ Len(c_ret.x) = 100
  /\ FracIs(c_ret.x[100], date2num(c_dts[1]))

\* ------------------------------------------------ render_one: the view
MaxSide == 3         \* largest raster side, in pixels

\* lengths are in tenths of a pixel; the raster SRS has one unit per pixel,
\* its origin at the top left corner of a north-up raster
Tenths == 10
ZOOM_PAD_TENTHS == 1     \* ZOOM_PAD = 0.10, in tenths
ModeInputs == {"feature", "layer"}
ExtentCoords(side) == {Tenths * k : k \in -2..(side + 2)}

\* gdal.InvGeoTransform of the north-up raster of height h
inv_gt(h) == <<0, 1, 0, h * Tenths, 0, -1>>

\* gdal.ApplyGeoTransform(gt, x, y)
ApplyGeoTransform(gt, px, py) ==
  <<gt[1] + gt[2] * px + gt[3] * py, gt[4] + gt[5] * px + gt[6] * py>>

Min2(a, b) == IF b < a THEN b ELSE a

\* lines 240-245: pad the extent by ZOOM_PAD on each side, then to pixels
PadExtent(e) ==
  LET padx == ((e.xmax - e.xmin) * ZOOM_PAD_TENTHS) \div Tenths
      pady == ((e.ymax - e.ymin) * ZOOM_PAD_TENTHS) \div Tenths
  IN [xmin |-> e.xmin - padx, xmax |-> e.xmax + padx,
      ymin |-> e.ymin - pady, ymax |-> e.ymax + pady]

\* faulty variant: an empty clamped range is kept
clamp_view_keep_empty(W, H, x0, x1, y0, y1) ==
  [xlim |-> <<Max2(0, Min2(x0, x1)), Min2(W, Max2(x0, x1))>>,
   ylim |-> <<Min2(H, Max2(y0, y1)), Max2(0, Min2(y0, y1))>>]

\* clamp_view (rasterimage.py:208-218); ylim is handed over as (ymax, ymin)
clamp_view(W, H, x0, x1, y0, y1) ==
  LET xmin == Max2(0, Min2(x0, x1))
      xmax == Min2(W, Max2(x0, x1))
      ymin == Max2(0, Min2(y0, y1))
      ymax == Min2(H, Max2(y0, y1))
  IN [xlim |-> IF xmax <= xmin THEN <<0, W>> ELSE <<xmin, xmax>>,
      ylim |-> IF ymax <= ymin THEN <<H, 0>> ELSE <<ymax, ymin>>]

InitView ==
  /\ v_pc = "extent"
  /\ v_mode \in ModeInputs
  /\ v_W \in 1..MaxSide
  /\ v_H \in 1..MaxSide
  /\ \E xa, xb \in ExtentCoords(v_W), ya, yb \in ExtentCoords(v_H) :
       /\ xa <= xb /\ ya <= yb
       /\ v_extent = [xmin |-> xa, xmax |-> xb, ymin |-> ya, ymax |-> yb]
  /\ v_corners = <<>> /\ v_xlim = <<>> /\ v_ylim = <<>>
  /\ ViewRestIdle

\* lines 240-245
ViewPad ==
  /\ v_pc = "extent"
  /\ LET e == PadExtent(v_extent)
     IN v_corners' = <<ApplyGeoTransform(inv_gt(v_H), e.xmin, e.ymin),
                       ApplyGeoTransform(inv_gt(v_H), e.xmax, e.ymax)>>
  /\ v_pc' = "clamp"
  /\ UNCHANGED <<v_mode, v_W, v_H, v_extent, v_xlim, v_ylim>>
  /\ UNCHANGED vrest

\* line 246
ViewClamp ==
  /\ v_pc = "clamp"
  /\ LET r == clamp_view(v_W * Tenths, v_H * Tenths,
                         v_corners[1][1], v_corners[2][1],
                         v_corners[1][2], v_corners[2][2])
     IN v_xlim' = r.xlim /\ v_ylim' = r.ylim
  /\ v_pc' = "drawn"
  /\ UNCHANGED <<v_mode, v_W, v_H, v_extent, v_corners>>
  /\ UNCHANGED vrest

NextView ==
  \/ ViewPad
  \/ ViewClamp

SpecView == InitView /\ [][NextView]_vars

\* C14: in both render modes and for every extent, the limits set by
\* clamp_view satisfy 0 <= xmin < xmax <= W and 0 <= ymin < ymax <= H.
C14_ViewInsideRaster ==
  v_pc = "drawn" =>
    /\ 0 <= v_xlim[1] /\ v_xlim[1] < v_xlim[2] /\ v_xlim[2] <= v_W * Tenths
    /\ 0 <= v_ylim[2] /\ v_ylim[2] < v_ylim[1] /\ v_ylim[1] <= v_H * Tenths

C14_Witness ==
  /\ v_pc = "drawn"
  /\ v_mode = "feature"
  /\ v_extent.xmax < 0                        \* wholly left of the raster
  /\ v_extent.ymin < 0 /\ v_extent.ymax > 0    \* partly below it
  /\ v_xlim = <<0, v_W * Tenths>>
  /\ v_ylim[1] = v_H * Tenths /\ v_ylim[2] > 0

\* ------------------------------------------------ workers on units of work
RayonSuffix ==     \* "_rayon_screen.png"
  <<95, 114, 97, 121, 111, 110, 95, 115, 99, 114, 101, 101, 110, 46, 112, 110, 103>>
MintaqaSuffix ==   \* "_mintaqa_screen.png"
  <<95, 109, 105, 110, 116, 97, 113, 97, 95, 115, 99, 114, 101, 101, 110, 46, 112, 110, 103>>

\* a unit of work: the arguments make_screens and make_grafik are called with
UnitInputs ==
  [gas : {lower(CO), lower(NO2)},
   date_str : {FmtIso(2025, 12, 20), FmtIso(2025, 12, 21)},
   parent_cod : {100, 200},
   out_dir : {<<79>>, <<80>>}]

\* the files one unit writes, in order: rasterimage.py:268-269, graph.py:285
OutputNames(u) ==
  LET stem == upper(u.gas) \o Underscore \o u.date_str
  IN <<join(u.out_dir, stem \o RayonSuffix),
       join(u.out_dir, stem \o MintaqaSuffix),
       join(u.out_dir, stem \o GrafikSuffix)>>

SameUnit(u, v) ==
  u.gas = v.gas /\ u.date_str = v.date_str /\ u.parent_cod = v.parent_cod

InitWorkers ==
  /\ w_units \in {p \in [1..2 -> UnitInputs] : ~SameUnit(p[1], p[2])}
  /\ w_step = <<0, 0>>
  /\ w_writes = {}
  /\ WorkersRestIdle

\* one worker writes its next file (fig.savefig / open(out_path, "wb"))
WorkerWrite ==
  /\ \E w \in 1..2 :
       /\ w_step[w] < 3
       /\ w_step' = [w_step EXCEPT ![w] = @ + 1]
       /\ w_writes' = w_writes \cup
            {[path |-> OutputNames(w_units[w])[w_step[w] + 1], by |-> w]}
  /\ UNCHANGED w_units
  /\ UNCHANGED wrest

NextWorkers == WorkerWrite

SpecWorkers == InitWorkers /\ [][NextWorkers]_vars

\* C16: in any interleaving of two workers on different units (differing in
\* pollutant, date or region), no output file is written by both, even when
\* they share the output directory.
C16_NoSharedOutputFile ==
  \A a, b \in w_writes : a.path = b.path => a.by = b.by

\* ------------------------------------------------ the loops over units
MaxUnits == 3        \* most units one loop is given

LoopInputs == {"build_docx", "ADS.main"}
UnitLabels == {CO, NO2, CH4}

InitLoop ==
  /\ o_pc = "loop"
  /\ o_loop \in LoopInputs
  /\ o_units \in SeqsUpTo(UnitLabels, MaxUnits) \ {<<>>}
  /\ o_i = 1
  /\ o_attempted = <<>>
  /\ o_failed = {}
  /\ LoopRestIdle

\* one pass of the loop body: build_docx calls make_screens and make_grafik
\* bare (main.py:116-142), ADS main calls download_one inside try/except
\* Exception (ADS.py:161-165)
LoopBody ==
  /\ o_pc = "loop"
  /\ o_i <= Len(o_units)
  /\ o_attempted' = Append(o_attempted, o_i)
  /\ \E raises \in BOOLEAN :
       IF ~raises
       THEN o_i' = o_i + 1 /\ UNCHANGED <<o_pc, o_failed>>
       ELSE /\ o_failed' = o_failed \cup {o_i}
            /\ IF o_loop = "ADS.main"
               THEN o_i' = o_i + 1 /\ UNCHANGED o_pc
               ELSE o_pc' = "aborted" /\ UNCHANGED o_i
  /\ UNCHANGED <<o_loop, o_units>>
  /\ UNCHANGED orest

\* the loop has run out of units: doc.save (main.py:170), the end of main
LoopEnd ==
  /\ o_pc = "loop"
  /\ o_i > Len(o_units)
  /\ o_pc' = "finished"
  /\ UNCHANGED <<o_loop, o_units, o_i, o_attempted, o_failed>>
  /\ UNCHANGED orest

NextLoop ==
  \/ LoopBody
  \/ LoopEnd

SpecLoop == InitLoop /\ [][NextLoop]_vars

\* C19: a failure of one unit does not abort its siblings: in build_docx and
\* in ADS main alike, every unit of the loop has been processed when the
\* loop is over, whatever units raised before.
C19_SiblingsStillProcessed ==
  o_pc \in {"finished", "aborted"} =>
    o_attempted = [i \in 1..Len(o_units) |-> i]

\* ------------------------------------------------ one pollutant of a report
\* _find_raster (rasterimage.py:75-84); files are the paths that exist
_find_raster(root, g, d, files) ==
  LET folder == join(root, upper(g))
      plain == join(folder, upper(g) \o Underscore \o d \o TifExt)
      ads == join(folder, upper(g) \o Underscore \o d \o AdsTif)
  IN IF strptime(d, "%Y-%m-%d") = ValueError
     THEN [raised |-> "ValueError", path |-> <<>>]
     ELSE IF plain \in files THEN [raised |-> "", path |-> plain]
     ELSE IF ads \in files THEN [raised |-> "", path |-> ads]
     ELSE [raised |-> "FileNotFoundError", path |-> <<>>]

RECURSIVE SelectAll(_, _, _, _)
\* the loop of graph.py:254-262 over all of tiffs
SelectAll(tiffs_, n, start, end) ==
  IF n = 0 THEN <<>>
  ELSE SelectStep(SelectAll(tiffs_, n - 1, start, end), tiffs_[n], start, end).selected

InitReport ==
  /\ r_pc = "screens"
  /\ r_gas \in GasInputs
  /\ r_date_str \in DateInputs
  /\ r_listing \in Listings(upper(r_gas))
  /\ r_raster = <<>>
  /\ r_series = <<>>
  /\ ReportRestIdle

\* main.py:123-131: make_screens renders the raster _find_raster returns
ReportScreens ==
  /\ r_pc = "screens"
  /\ LET folder == join(RastersRoot, upper(r_gas))
         files == {join(folder, r_listing[i]) : i \in DOMAIN r_listing}
         r == _find_raster(RastersRoot, r_gas, r_date_str, files)
     IN IF r.raised # ""
        THEN r_pc' = "aborted" /\ UNCHANGED r_raster
        ELSE r_pc' = "grafik" /\ r_raster' = r.path
  /\ UNCHANGED <<r_gas, r_date_str, r_listing, r_series>>
  /\ UNCHANGED rrest

\* main.py:134-142: make_grafik assembles the series from the same folder
ReportGrafik ==
  /\ r_pc = "grafik"
  /\ LET end == strptime(r_date_str, "%Y-%m-%d")
         found == _list_tiffs(TRUE, join(RastersRoot, upper(r_gas)), r_listing)
         sel == SelectAll(found, Len(found), WindowStart(end, CoerceLookback(30)), end)
     IN IF found = <<>> \/ NoneSelected(sel)
        THEN r_pc' = "aborted" /\ UNCHANGED r_series
        ELSE r_pc' = "page" /\ r_series' = _dedupe_by_date(sel)
  /\ UNCHANGED <<r_gas, r_date_str, r_listing, r_raster>>
  /\ UNCHANGED rrest

NextReport ==
  \/ ReportScreens
  \/ ReportGrafik

SpecReport == InitReport /\ [][NextReport]_vars

\* C20: the raster make_screens renders for a pollutant and report date is
\* the file make_grafik uses for the series point of that date, for every
\* combination of files in the pollutant folder.
C20_SameRasterBothWays ==
  r_pc = "page" =>
    \E i \in DOMAIN r_series :
      r_series[i] = <<strptime(r_date_str, "%Y-%m-%d"), r_raster>>

====
